---- MODULE Spec2Model ----
(***************************************************************************)
(* Model of calendar_bot's scheduling core: the interval algebra of        *)
(* src/cal/interval.rs (intersection, the Difference iterator) and the     *)
(* calendar of src/cal/mod.rs (add_event, events_in, free_time_in,         *)
(* find_time).  Time is a tick count; a day is DayLen ticks long.          *)
(* An Option is a sequence of length 0 (None) or 1 (Some).                 *)
(***************************************************************************)
EXTENDS Integers, Sequences, FiniteSets

VARIABLES events, op, arg, ret, panic, iters, visited, iter, operands, pulled

vars == <<events, op, arg, ret, panic, iters, visited, iter, operands, pulled>>

(***************************************************************************)
(* Bounds of the model.                                                    *)
(***************************************************************************)
DayLen == 3
MaxDay == 1
MaxDur == 2
MaxEvents == 2
MaxPoint == 4
MaxTime == 4
MaxPulls == 4
MaxStamp == 2

None == << >>
Some(x) == <<x>>

Max(x, y) == IF x >= y THEN x ELSE y
Min(x, y) == IF x <= y THEN x ELSE y

(***************************************************************************)
(* src/cal/interval.rs                                                     *)
(***************************************************************************)
Interval(s, e) == [start |-> s, end |-> e]

new_lenient(start, end) ==
    IF start <= end THEN Some(Interval(start, end)) ELSE None

\* Interval::new: the interval, or None when assert!(start < end) aborts.
new(start, end) ==
    IF start < end THEN Some(Interval(start, end)) ELSE None

\* The intervals that Interval::new returns.
Intervals ==
    {i \in [start : 0..MaxPoint, end : 0..MaxPoint] : new(i.start, i.end) = Some(i)}

intersection_touching(self, other) ==
    LET end == Min(self.end, other.end)
        start == Max(self.start, other.start)
    IN  IF start <= end THEN Some(Interval(start, end)) ELSE None

\* Interval::intersection
intersection(self, other) ==
    LET end == Min(self.end, other.end)
        start == Max(self.start, other.start)
    IN  IF start < end THEN Some(Interval(start, end)) ELSE None

\* The Difference struct built by Interval::difference.
difference(self, other) ==
    [interval |-> self, intersection |-> intersection(self, other)]

DifferenceNext_swapped(d) ==
    IF d.intersection = None
    THEN <<Some(d.interval), d>>
    ELSE LET i == d.intersection[1]
         IN  IF d.interval.end > i.end
             THEN <<Some(Interval(i.end, d.interval.end)),
                    [d EXCEPT !.interval.end = i.end]>>
             ELSE IF d.interval.start < i.start
             THEN <<Some(Interval(d.interval.start, i.start)),
                    [d EXCEPT !.interval.start = i.start]>>
             ELSE <<None, d>>

\* Difference::next: <<item, iterator after the pull>>.
DifferenceNext(d) ==
    IF d.intersection = None
    THEN <<Some(d.interval), d>>
    ELSE LET i == d.intersection[1]
         IN  IF d.interval.start < i.start
             THEN <<Some(Interval(d.interval.start, i.start)),
                    [d EXCEPT !.interval.start = i.start]>>
             ELSE IF d.interval.end > i.end
             THEN <<Some(Interval(i.end, d.interval.end)),
                    [d EXCEPT !.interval.end = i.end]>>
             ELSE <<None, d>>

(***************************************************************************)
(* src/cal/mod.rs: Event and CmpEvent                                      *)
(***************************************************************************)
\* Event::event_default.  Its date is the wall clock; every caller
\* overrides it with the struct-update syntax.
event_default == [organizer |-> "", description |-> "", date |-> 0, duration |-> 0]

\* Event { date, duration, ..Event::event_default() }
Event(date, duration) == [event_default EXCEPT !.date = date, !.duration = duration]

EventEnd(e) == e.date + e.duration

\* CmpEvent::from_date
from_date(date) == [event_default EXCEPT !.date = date]

cmp_by_date(a, b) ==
    IF a.date < b.date THEN "Less"
    ELSE IF a.date > b.date THEN "Greater"
    ELSE "Equal"

\* Ord for CmpEvent: by date, then by duration; the payload takes no part.
cmp(a, b) ==
    IF a.date < b.date THEN "Less"
    ELSE IF a.date > b.date THEN "Greater"
    ELSE IF a.duration < b.duration THEN "Less"
    ELSE IF a.duration > b.duration THEN "Greater"
    ELSE "Equal"

\* Event::overlap / CmpEvent::overlap
overlap(self, other) ==
    LET start == Max(self.date, other.date)
        duration == Min(EventEnd(self), EventEnd(other)) - start
    IN  IF duration > 0 THEN Some(Event(start, duration)) ELSE None

(***************************************************************************)
(* The BTreeSet<CmpEvent> of Cal: a set with at most one element per key,  *)
(* iterated in cmp order.                                                  *)
(***************************************************************************)
MinEvent(S) == CHOOSE e \in S : \A f \in S : cmp(e, f) \in {"Less", "Equal"}

RECURSIVE InOrder(_)
InOrder(S) ==
    IF S = {} THEN << >>
    ELSE LET m == MinEvent(S) IN <<m>> \o InOrder(S \ {m})

\* BTreeSet::insert: <<set after the call, returned flag>>.  An element
\* that compares Equal to the argument is kept and the argument is dropped.
BTreeInsert_replacing(S, e) ==
    IF \E f \in S : cmp(f, e) = "Equal"
    THEN <<{f \in S : cmp(f, e) # "Equal"} \cup {e}, FALSE>>
    ELSE <<S \cup {e}, TRUE>>

BTreeInsert(S, e) ==
    IF \E f \in S : cmp(f, e) = "Equal"
    THEN <<S, FALSE>>
    ELSE <<S \cup {e}, TRUE>>

\* BTreeSet::range panics when the range's start is greater than its end.
RangePanics(range) ==
    cmp(from_date(range.start), from_date(range.end)) = "Greater"

events_in_inclusive(S, range) ==
    InOrder({e \in S : /\ cmp(from_date(range.start), e) \in {"Less", "Equal"}
                       /\ cmp(e, from_date(range.end)) \in {"Less", "Equal"}})

\* Cal::events_in_cmp / Cal::events_in: the elements k with
\* from_date(range.start) <= k < from_date(range.end), in order.
events_in(S, range) ==
    InOrder({e \in S : /\ cmp(from_date(range.start), e) \in {"Less", "Equal"}
                       /\ cmp(e, from_date(range.end)) = "Less"})

\* The for loop of free_time_in_cmp: <<vector, start>> after busy[k..].
RECURSIVE FreeWalk(_, _, _, _)
FreeWalk(busy, k, vector, start) ==
    IF k > Len(busy) THEN <<vector, start>>
    ELSE FreeWalk(busy, k + 1,
                  Append(vector, Event(start, busy[k].date - start)),
                  EventEnd(busy[k]))

RECURSIVE Filter(_)
Filter(v) ==
    IF v = << >> THEN << >>
    ELSE IF Head(v).duration > 0 THEN <<Head(v)>> \o Filter(Tail(v))
    ELSE Filter(Tail(v))

free_time_in_cmp_unfiltered(S, range) ==
    LET w == FreeWalk(events_in(S, range), 1, << >>, range.start)
    IN  Append(w[1], Event(w[2], range.end - w[2]))

free_time_in_cmp_no_tail(S, range) ==
    LET w == FreeWalk(events_in(S, range), 1, << >>, range.start)
    IN  Filter(w[1])

\* Cal::free_time_in_cmp / Cal::free_time_in (the range is one that
\* BTreeSet::range accepts).
free_time_in_cmp(S, range) ==
    LET w == FreeWalk(events_in(S, range), 1, << >>, range.start)
    IN  Filter(Append(w[1], Event(w[2], range.end - w[2])))

\* Date::and_time: day `day` at time-of-day `time`.
and_time(day, time) == day * DayLen + time

\* Cal::get_proposed_times: one candidate per day of days.start..=days.end.
RECURSIVE ProposedFrom(_, _, _)
ProposedFrom(day, days, times) ==
    IF day > days.end THEN << >>
    ELSE <<Event(and_time(day, times.start), times.end - times.start)>>
         \o ProposedFrom(day + 1, days, times)

get_proposed_times(days, times) == ProposedFrom(days.start, days, times)

\* An iteration at <<i, j>> followed by the rest of the loop.
Then(i, j, r) == [r EXCEPT !.visited = <<<<i, j>>>> \o @]

\* The loop of Cal::find_time with the iterators at proposed[i] and
\* free[j]; n counts the iterations begun, visited lists their <<i, j>>.
RECURSIVE FindLoop(_, _, _, _, _, _)
FindLoop_unchecked(proposed, free, i, j, duration, n) ==
    LET x == overlap(proposed[i], free[j])
    IN  IF x # None
        THEN [ret |-> Some(x[1].date), iters |-> n + 1, visited |-> <<<<i, j>>>>]
        ELSE IF j + 1 > Len(free) \/ i + 1 > Len(proposed)
             THEN [ret |-> None, iters |-> n + 1, visited |-> <<<<i, j>>>>]
             ELSE Then(i, j, FindLoop(proposed, free, i + 1, j + 1, duration, n + 1))

FindLoop_lone(proposed, free, i, j, duration, n) ==
    LET x == overlap(proposed[i], free[j])
        c == cmp(proposed[i], free[j])
        i2 == IF x # None /\ c = "Greater" THEN i ELSE i + 1
        j2 == IF x = None \/ c = "Less" THEN j ELSE j + 1
    IN  IF x # None /\ x[1].duration >= duration
        THEN [ret |-> Some(x[1].date), iters |-> n + 1, visited |-> <<<<i, j>>>>]
        ELSE IF j2 > Len(free) \/ i2 > Len(proposed)
             THEN [ret |-> None, iters |-> n + 1, visited |-> <<<<i, j>>>>]
             ELSE Then(i, j, FindLoop(proposed, free, i2, j2, duration, n + 1))

FindLoop(proposed, free, i, j, duration, n) ==
    LET x == overlap(proposed[i], free[j])
        c == cmp(proposed[i], free[j])
        i2 == IF x # None /\ c = "Greater" THEN i ELSE i + 1
        j2 == IF x # None /\ c = "Less" THEN j ELSE j + 1
    IN  IF x # None /\ x[1].duration >= duration
        THEN [ret |-> Some(x[1].date), iters |-> n + 1, visited |-> <<<<i, j>>>>]
        ELSE IF j2 > Len(free) \/ i2 > Len(proposed)
             THEN [ret |-> None, iters |-> n + 1, visited |-> <<<<i, j>>>>]
             ELSE Then(i, j, FindLoop(proposed, free, i2, j2, duration, n + 1))

\* The range find_time hands to free_time_in_cmp.
SearchRange(days, times) ==
    [start |-> and_time(days.start, times.start),
     end |-> and_time(days.end, times.end)]

\* Cal::find_time: [ret, panic, iters, visited].
find_time(S, days, times, duration) ==
    LET proposed == get_proposed_times(days, times)
        range == SearchRange(days, times)
        early == [ret |-> None, panic |-> FALSE, iters |-> 0, visited |-> << >>]
    IN  IF proposed = << >>
        THEN early
        ELSE IF RangePanics(range)
        THEN [early EXCEPT !.panic = TRUE]
        ELSE LET free == free_time_in_cmp(S, range)
             IN  IF free = << >>
                 THEN early
                 ELSE LET r == FindLoop(proposed, free, 1, 1, duration, 0)
                      IN  [ret |-> r.ret, panic |-> FALSE, iters |-> r.iters,
                           visited |-> r.visited]

(***************************************************************************)
(* Inputs.                                                                 *)
(***************************************************************************)
Days == 0..MaxDay
Times == 0..(DayLen - 1)
DayRanges == [start : Days, end : Days]
TimeRanges == [start : Times, end : Times]
\* The duration asked of find_time is positive.
Wanted == 1..MaxDur

\* Events as find_time sees them: the payload is not read.
BookedEvents == {Event(d, n) : d \in 0..MaxTime, n \in 0..MaxDur}

\* Events as free_time_in sees them; a Duration is signed.
Ranges == [start : 0..(MaxTime + 1), end : 0..(MaxTime + 1)]
PlainEvents == {Event(d, n) : d \in 0..MaxTime, n \in (-1)..MaxDur}

\* Events with a payload.
Payloads == {<<"", "">>, <<"ann", "tea">>, <<"bob", "tea">>}
TaggedEvents ==
    {[organizer |-> p[1], description |-> p[2], date |-> d, duration |-> n] :
        p \in Payloads, d \in 0..MaxStamp, n \in 0..MaxDur}

(***************************************************************************)
(* Operations.  The core is single-threaded and synchronous: a call runs   *)
(* to completion and returns (Return) before the next one starts; a panic  *)
(* ends the run.                                                           *)
(***************************************************************************)
NoArg == [none |-> TRUE]

\* Cal::new(), no call in progress.
Init ==
    /\ events = {}
    /\ op = "idle"
    /\ arg = NoArg
    /\ ret = None
    /\ panic = FALSE
    /\ iters = 0
    /\ visited = << >>
    /\ iter = None
    /\ operands = << >>
    /\ pulled = << >>

\* Interval::new; a failed assertion is a panic.
New(start, end) ==
    /\ op = "idle"
    /\ op' = "new"
    /\ arg' = [start |-> start, end |-> end]
    /\ ret' = new(start, end)
    /\ panic' = (new(start, end) = None)
    /\ UNCHANGED <<events, iters, visited, iter, operands, pulled>>

\* Cal::add_event
add_event(event) ==
    LET r == BTreeInsert(events, event)
    IN  /\ op = "idle"
        /\ Cardinality(r[1]) <= MaxEvents
        /\ events' = r[1]
        /\ op' = "add_event"
        /\ arg' = [event |-> event]
        /\ ret' = Some(r[2])
        /\ UNCHANGED <<panic, iters, visited, iter, operands, pulled>>

\* Cal::free_time_in
free_time_in(range) ==
    /\ op = "idle"
    /\ op' = "free_time_in"
    /\ arg' = [range |-> range]
    /\ panic' = RangePanics(range)
    /\ ret' = IF RangePanics(range) THEN << >> ELSE free_time_in_cmp(events, range)
    /\ UNCHANGED <<events, iters, visited, iter, operands, pulled>>

\* Cal::events_in
EventsIn(range) ==
    /\ op = "idle"
    /\ op' = "events_in"
    /\ arg' = [range |-> range]
    /\ panic' = RangePanics(range)
    /\ ret' = IF RangePanics(range) THEN << >> ELSE events_in(events, range)
    /\ UNCHANGED <<events, iters, visited, iter, operands, pulled>>

\* Cal::find_time
FindTime(days, times, duration) ==
    LET r == find_time(events, days, times, duration)
    IN  /\ op = "idle"
        /\ op' = "find_time"
        /\ arg' = [days |-> days, times |-> times, duration |-> duration]
        /\ ret' = r.ret
        /\ panic' = r.panic
        /\ iters' = r.iters
        /\ visited' = r.visited
        /\ UNCHANGED <<events, iter, operands, pulled>>

\* Interval::intersection
Intersection(a, b) ==
    /\ op = "idle"
    /\ op' = "intersection"
    /\ arg' = [a |-> a, b |-> b]
    /\ ret' = intersection(a, b)
    /\ UNCHANGED <<events, panic, iters, visited, iter, operands, pulled>>

\* Interval::difference: a fresh iterator replaces the previous one.
Difference(a, b) ==
    /\ op = "idle"
    /\ op' = "difference"
    /\ arg' = [a |-> a, b |-> b]
    /\ iter' = Some(difference(a, b))
    /\ operands' = <<a, b>>
    /\ pulled' = << >>
    /\ UNCHANGED <<events, ret, panic, iters, visited>>

\* One call of Difference::next on the live iterator.  operands keeps
\* the a and b the iterator was built from.
Pull ==
    /\ op = "idle"
    /\ iter # None
    /\ Len(pulled) < MaxPulls
    /\ LET r == DifferenceNext(iter[1])
       IN  /\ iter' = Some(r[2])
           /\ pulled' = Append(pulled, r[1])
           /\ ret' = r[1]
    /\ op' = "next"
    /\ arg' = NoArg
    /\ UNCHANGED <<events, panic, iters, visited, operands>>

\* The call returns to its caller, which takes the result.
Return ==
    /\ op # "idle"
    /\ ~panic
    /\ op' = "idle"
    /\ arg' = NoArg
    /\ ret' = None
    /\ iters' = 0
    /\ visited' = << >>
    /\ UNCHANGED <<events, panic, iter, operands, pulled>>

(***************************************************************************)
(* Specifications.                                                         *)
(***************************************************************************)
\* Inserts, free-time queries and slot searches.
Next ==
    \/ \E e \in BookedEvents : add_event(e)
    \/ \E r \in Ranges : free_time_in(r)
    \/ \E d \in DayRanges, t \in TimeRanges, w \in Wanted : FindTime(d, t, w)
    \/ Return

Spec == Init /\ [][Next]_vars

\* Inserts, range and free-time queries, over events of signed duration.
NextFree ==
    \/ \E e \in PlainEvents : add_event(e)
    \/ \E r \in Ranges : free_time_in(r)
    \/ \E r \in Ranges : EventsIn(r)
    \/ Return

SpecFree == Init /\ [][NextFree]_vars

\* Construction of intervals and inserts of events with payloads.
NextInsert ==
    \/ \E s \in 0..MaxStamp, e \in 0..MaxStamp : New(s, e)
    \/ \E e \in TaggedEvents : add_event(e)
    \/ Return

SpecInsert == Init /\ [][NextInsert]_vars

\* The interval algebra.
NextInterval ==
    \/ \E a \in Intervals, b \in Intervals : Intersection(a, b)
    \/ \E a \in Intervals, b \in Intervals : Difference(a, b)
    \/ Pull
    \/ Return

SpecInterval == Init /\ [][NextInterval]_vars

(***************************************************************************)
(* Properties.                                                             *)
(***************************************************************************)
\* What the find_time call in progress works on.
Proposed == get_proposed_times(arg.days, arg.times)
Free == free_time_in_cmp(events, SearchRange(arg.days, arg.times))

\* A find_time call over ascending, disjoint candidates has returned.
Searched == op = "find_time" /\ ~panic /\ arg.times.start < arg.times.end

\* The intersections of a candidate and a free-time interval that are
\* at least the wanted duration long.
Slots ==
    {x \in {overlap(Proposed[i], Free[j]) :
                i \in 1..Len(Proposed), j \in 1..Len(Free)} :
        x # None /\ x[1].duration >= arg.duration}

Inside(t, n, e) == e.date <= t /\ t + n <= EventEnd(e)

\* C1: find_time returns None only when no candidate interval and no
\* free-time interval of the search range intersect for at least the
\* wanted duration.
C1_NoneOnlyWithoutSlot == (Searched /\ Slots # {}) => ret # None

\* C2: a slot returned by find_time is the earliest: no intersection of a
\* candidate and a free-time interval that is long enough starts before it.
C2_ReturnsEarliest ==
    (Searched /\ ret # None) => \A x \in Slots : x[1].date >= ret[1]

\* C3: the slot [t, t + duration) returned by find_time overlaps no event
\* stored in the calendar.
C3_SlotOverlapsNoEvent ==
    (Searched /\ ret # None) =>
        \A e \in events : overlap(Event(ret[1], arg.duration), e) = None

\* C4: a returned slot [t, t + duration) lies inside one candidate and
\* inside one free-time interval of the search range, and t is the start
\* of an intersection of the two that is at least duration long.
C4_SlotInsideBoth ==
    (op = "find_time" /\ ret # None) =>
        \E i \in 1..Len(Proposed), j \in 1..Len(Free) :
            /\ Inside(ret[1], arg.duration, Proposed[i])
            /\ Inside(ret[1], arg.duration, Free[j])
            /\ overlap(Proposed[i], Free[j]) # None
            /\ overlap(Proposed[i], Free[j])[1].date = ret[1]
            /\ overlap(Proposed[i], Free[j])[1].duration >= arg.duration

\* C4 witness: a slot was returned after a shorter intersection was passed
\* over.
C4_Witness ==
    /\ op = "find_time"
    /\ ret # None
    /\ arg.duration > 0
    /\ iters > 1
    /\ \E i \in 1..Len(Proposed), j \in 1..Len(Free) :
          /\ overlap(Proposed[i], Free[j]) # None
          /\ overlap(Proposed[i], Free[j])[1].duration < arg.duration
          /\ overlap(Proposed[i], Free[j])[1].date < ret[1]

StartsIn(e, range) == range.start <= e.date /\ e.date < range.end

\* C5: no interval yielded by free_time_in(range) overlaps a stored event
\* whose start lies in range.
C5_FreeAvoidsEvents ==
    (op = "free_time_in" /\ ~panic) =>
        \A k \in 1..Len(ret) : \A e \in events :
            StartsIn(e, arg.range) => overlap(ret[k], e) = None

\* C6: over a calendar of events of non-negative duration, every interval
\* yielded by free_time_in(range) has positive length, lies within the range
\* and starts at or after the end of the one yielded before it.
C6_FreeWellFormed ==
    (op = "free_time_in" /\ ~panic /\ \A e \in events : e.duration >= 0) =>
        \A k \in 1..Len(ret) :
            /\ ret[k].duration > 0
            /\ arg.range.start <= ret[k].date
            /\ EventEnd(ret[k]) <= arg.range.end
            /\ k > 1 => EventEnd(ret[k - 1]) <= ret[k].date

\* C6 witness: two free intervals around overlapping events, with a
\* non-positive gap dropped between them.
C6_Witness ==
    /\ op = "free_time_in"
    /\ ~panic
    /\ Len(ret) = 2
    /\ \A e \in events : e.duration >= 0
    /\ \E e \in events, f \in events : e # f /\ overlap(e, f) # None
    /\ Len(free_time_in_cmp_unfiltered(events, arg.range)) > 2

Points(i) == i.start..(i.end - 1)

Items == {k \in 1..Len(pulled) : pulled[k] # None}

\* C7: when a and b do not intersect, the first pull on difference(a, b)
\* yields a and every later pull yields nothing.
C7_DisjointYieldsOnce ==
    (operands # << >> /\ intersection(operands[1], operands[2]) = None) =>
        \A k \in 1..Len(pulled) :
            pulled[k] = IF k = 1 THEN Some(operands[1]) ELSE None

\* C8: the intervals yielded by difference(a, b) do not overlap b or each
\* other, and once the sequence is exhausted they and intersection(a, b)
\* cover exactly the points of a.
C8_DifferencePartitions ==
    operands # << >> =>
        LET a == operands[1]
            b == operands[2]
            both == intersection(a, b)
        IN  /\ \A k \in Items : intersection(pulled[k][1], b) = None
            /\ \A k \in Items : \A l \in Items :
                  k # l => Points(pulled[k][1]) \cap Points(pulled[l][1]) = {}
            /\ (\E k \in 1..Len(pulled) : pulled[k] = None) =>
                  UNION {Points(pulled[k][1]) : k \in Items}
                      \cup (IF both = None THEN {} ELSE Points(both[1]))
                  = Points(a)

SameKey(e, f) == e.date = f.date /\ e.duration = f.duration

\* C9: add_event returns true exactly when no stored event has the key of
\* the inserted one; an accepted event is added as it is, whatever it
\* overlaps, and the calendar then holds one event of that key.
C9_InsertReportsNewKey ==
    [][op' = "add_event" =>
          /\ ret' = Some(~ \E f \in events : SameKey(f, arg'.event))
          /\ ret'[1] => events' = events \cup {arg'.event}
          /\ Cardinality({f \in events' : SameKey(f, arg'.event)}) = 1]_vars

\* C9 witness: an event overlapping a stored event of another key was
\* accepted.
C9_Witness ==
    /\ op = "add_event"
    /\ ret = Some(TRUE)
    /\ \E f \in events : ~SameKey(f, arg.event) /\ overlap(f, arg.event) # None

\* C10: an insert of a key already stored leaves the stored events, payload
\* included, as they were; no insert removes or alters a stored event.
C10_DuplicateInsertIsNoOp ==
    [][op' = "add_event" =>
          /\ events \subseteq events'
          /\ (\E f \in events : SameKey(f, arg'.event)) => events' = events]_vars

\* C10 witness: an event was rejected whose payload differs from that of
\* the stored event of its key.
C10_Witness ==
    /\ op = "add_event"
    /\ ret = Some(FALSE)
    /\ arg.event \notin events
    /\ \E f \in events : SameKey(f, arg.event) /\ f.organizer # arg.event.organizer

\* C11: over a calendar of events of non-negative duration and a range with
\* start <= end, events_in(range) yields, ascending and each once, exactly
\* the stored events whose start t has range.start <= t < range.end.
C11_EventsInByStart ==
    (/\ op = "events_in"
     /\ arg.range.start <= arg.range.end
     /\ \A e \in events : e.duration >= 0) =>
        /\ ~panic
        /\ {ret[k] : k \in 1..Len(ret)} = {e \in events : StartsIn(e, arg.range)}
        /\ Len(ret) = Cardinality({e \in events : StartsIn(e, arg.range)})
        /\ \A k \in 1..Len(ret) : \A l \in 1..Len(ret) :
              k < l => \/ ret[k].date < ret[l].date
                       \/ /\ ret[k].date = ret[l].date
                          /\ EventEnd(ret[k]) < EventEnd(ret[l])

\* C11 witness: one event is yielded; another one, which starts before the
\* range and ends inside it or starts at the range's end, is not.
C11_Witness ==
    /\ op = "events_in"
    /\ ~panic
    /\ Len(ret) = 1
    /\ \A e \in events : e.duration >= 0
    /\ \E e \in events :
          \/ e.date < arg.range.start /\ EventEnd(e) > arg.range.start
          \/ e.date = arg.range.end

\* C12: intersection(a, b) is [max(a.start, b.start), min(a.end, b.end))
\* when that start is strictly less than that end and None otherwise; when
\* the intervals only touch it is None.
C12_IntersectionIsMaxMin ==
    op = "intersection" =>
        LET a == arg.a
            b == arg.b
            lo == IF a.start >= b.start THEN a.start ELSE b.start
            hi == IF a.end <= b.end THEN a.end ELSE b.end
        IN  /\ lo < hi => ret = Some([start |-> lo, end |-> hi])
            /\ lo >= hi => ret = None
            /\ (a.end = b.start \/ b.end = a.start) => ret = None

\* C12 witness: the intersection of two intervals that only touch was asked
\* for.
C12_Witness ==
    /\ op = "intersection"
    /\ arg.a.end = arg.b.start
    /\ ret = None

\* C13: over a calendar with no events and a range with start < end,
\* free_time_in(range) yields exactly one interval, the range itself.
C13_EmptyCalendarIsFree ==
    (op = "free_time_in" /\ events = {} /\ arg.range.start < arg.range.end) =>
        /\ ~panic
        /\ Len(ret) = 1
        /\ ret[1].date = arg.range.start
        /\ EventEnd(ret[1]) = arg.range.end

\* C13 witness: free time was asked of the empty calendar over a range that
\* is not empty.
C13_Witness ==
    /\ op = "free_time_in"
    /\ events = {}
    /\ arg.range.start < arg.range.end
    /\ ret # << >>

\* Interval::new(start, end) aborts when start >= end and returns the
\* interval (start, end) when start < end.
NewChecksOrder ==
    op = "new" =>
        /\ arg.start >= arg.end => panic /\ ret = None
        /\ arg.start < arg.end =>
              ~panic /\ ret = Some([start |-> arg.start, end |-> arg.end])

\* C14 as stated: Interval::new aborts on start >= end and returns (start,
\* end) otherwise, and no interval with start >= end is stored in a calendar.
C14_NoInvertedIntervalStored ==
    /\ NewChecksOrder
    /\ \A e \in events : e.date < EventEnd(e)

\* C14 as amended: Interval::new aborts on start >= end and returns (start,
\* end) otherwise, so that every Interval it returns has start < end.
C14_NewRejectsInverted ==
    /\ NewChecksOrder
    /\ (op = "new" /\ ret # None) => ret[1].start < ret[1].end

\* C14 witness: Interval::new was called with start = end and aborted.
C14_Witness ==
    /\ op = "new"
    /\ arg.start = arg.end
    /\ panic

\* What difference(a, b) is to yield when a and b intersect at i: the
\* leading remainder, then the trailing one, each when it is not empty.
Remainders(a, i) ==
    (IF a.start < i.start THEN <<Some([start |-> a.start, end |-> i.start])>>
     ELSE << >>)
    \o (IF i.end < a.end THEN <<Some([start |-> i.end, end |-> a.end])>>
        ELSE << >>)

\* C15: when a and b intersect at i, the pulls on difference(a, b) yield
\* the leading remainder [a.start, i.start) if it is not empty, then the
\* trailing remainder [i.end, a.end) if it is not empty, and nothing from
\* then on.
C15_RemaindersInOrder ==
    (operands # << >> /\ intersection(operands[1], operands[2]) # None) =>
        LET want == Remainders(operands[1],
                               intersection(operands[1], operands[2])[1])
        IN  \A k \in 1..Len(pulled) :
                pulled[k] = IF k <= Len(want) THEN want[k] ELSE None

\* C15 witness: both remainders were yielded and two more pulls reported
\* exhaustion.
C15_Witness ==
    /\ operands # << >>
    /\ intersection(operands[1], operands[2]) # None
    /\ Len(pulled) = 4
    /\ pulled[1] # None
    /\ pulled[2] # None
    /\ pulled[1][1].end <= pulled[2][1].start
    /\ pulled[3] = None
    /\ pulled[4] = None

\* C16: every iteration of find_time's loop returns or moves at least one
\* of the two sequences forward, and both when the current pair does not
\* intersect or is order-equal; the iterations number at most the candidate
\* intervals plus the free-time intervals.
C16_SearchIsLinear ==
    (op = "find_time" /\ ~panic) =>
        /\ iters = Len(visited)
        /\ iters <= Len(Proposed) + Len(Free)
        /\ \A k \in 1..(Len(visited) - 1) :
              LET i == visited[k][1]
                  j == visited[k][2]
                  di == visited[k + 1][1] - i
                  dj == visited[k + 1][2] - j
                  apart == overlap(Proposed[i], Free[j]) = None
                  equal == /\ Proposed[i].date = Free[j].date
                           /\ Proposed[i].duration = Free[j].duration
              IN  /\ di \in {0, 1}
                  /\ dj \in {0, 1}
                  /\ di + dj >= 1
                  /\ (apart \/ equal) => di + dj = 2

\* C16 witness: a search of three iterations, one of which moved one
\* sequence and one of which moved both.
C16_Witness ==
    /\ op = "find_time"
    /\ ~panic
    /\ iters = 3
    /\ \E k \in 1..2 : (visited[k + 1][1] - visited[k][1])
                        + (visited[k + 1][2] - visited[k][2]) = 1
    /\ \E k \in 1..2 : (visited[k + 1][1] - visited[k][1])
                        + (visited[k + 1][2] - visited[k][2]) = 2

====
